---------------------------- MODULE Spec2Model ----------------------------
(***************************************************************************)
(* Model of scripts/wiki-migration/link-converter.py: the title            *)
(* normaliser, the link rewriter, the metadata wrapper, the per-file       *)
(* processor and the batch driver with its category index.                 *)
(*                                                                         *)
(* Text is a sequence of one-character strings.  The fixed prose of the    *)
(* header and footer is kept as multi-character atoms; no atom holds a     *)
(* character the regular expressions or the case rules look at.            *)
(***************************************************************************)
EXTENDS Integers, Sequences, FiniteSets, TLC

VARIABLES
    tree,             \* the input tree: the source files found under input_dir
    missing,          \* configured subdirectories that do not exist
    pc,               \* position of main()
    dirIdx,           \* index into category_mapping of the directory being walked
    pending,          \* files of the current glob not yet iterated
    outfs,            \* the output directory: wiki filename -> content
    processed_files,  \* main(): processed_files
    failed_files,     \* main(): failed_files
    warnings,         \* the "Directory not found" lines printed
    index,            \* the groups rendered into _Content-Index.md
    fn_pc,            \* pure-function specifications: "input", "output", "again"
    norm_in,          \* argument of convert_filename_to_wiki_title
    norm_out,         \* its result
    link_in,          \* argument of convert_link_patterns
    link_out,         \* its result
    wrap_in,          \* arguments of add_wiki_metadata
    wrap_out          \* its result

vars == <<tree, missing, pc, dirIdx, pending, outfs, processed_files,
          failed_files, warnings, index, fn_pc, norm_in, norm_out,
          link_in, link_out, wrap_in, wrap_out>>

batchVars == <<tree, missing, pc, dirIdx, pending, outfs, processed_files,
               failed_files, warnings, index>>

fnVars == <<fn_pc, norm_in, norm_out, link_in, link_out, wrap_in, wrap_out>>

(***************************************************************************)
(* Bounds of the model.                                                    *)
(***************************************************************************)
MaxWords == 2

MaxLinks == 2

MaxLines == 3

MaxFiles == 3

MaxMissing == 1

(***************************************************************************)
(* String primitives (Python str / re semantics).                          *)
(***************************************************************************)
LowerLetters ==
    <<"a", "b", "c", "d", "e", "f", "g", "h", "i", "j", "k", "l", "m",
      "n", "o", "p", "q", "r", "s", "t", "u", "v", "w", "x", "y", "z">>

UpperLetters ==
    <<"A", "B", "C", "D", "E", "F", "G", "H", "I", "J", "K", "L", "M",
      "N", "O", "P", "Q", "R", "S", "T", "U", "V", "W", "X", "Y", "Z">>

IsLower(c) == \E i \in 1..26 : LowerLetters[i] = c

IsUpper(c) == \E i \in 1..26 : UpperLetters[i] = c

IsCased(c) == IsLower(c) \/ IsUpper(c)

ToUpper(c) ==
    IF IsLower(c) THEN UpperLetters[CHOOSE i \in 1..26 : LowerLetters[i] = c]
    ELSE c

ToLower(c) ==
    IF IsUpper(c) THEN LowerLetters[CHOOSE i \in 1..26 : UpperLetters[i] = c]
    ELSE c

\* s has p at position i
StartsWithAt(s, i, p) ==
    /\ i + Len(p) - 1 <= Len(s)
    /\ \A k \in 1..Len(p) : s[i + k - 1] = p[k]

\* str.replace(old, new): leftmost, non-overlapping occurrences
RECURSIVE ReplaceFrom(_, _, _, _)
ReplaceFrom(s, i, old, new) ==
    IF i > Len(s) THEN <<>>
    ELSE IF StartsWithAt(s, i, old)
         THEN new \o ReplaceFrom(s, i + Len(old), old, new)
         ELSE <<s[i]>> \o ReplaceFrom(s, i + 1, old, new)

Replace(s, old, new) == ReplaceFrom(s, 1, old, new)

\* str.title(): a cased character is upper-cased after an uncased one (or at
\* the start) and lower-cased after a cased one
RECURSIVE TitleFrom(_, _, _)
TitleFrom(s, i, prevCased) ==
    IF i > Len(s) THEN <<>>
    ELSE IF IsCased(s[i])
         THEN <<IF prevCased THEN ToLower(s[i]) ELSE ToUpper(s[i])>>
              \o TitleFrom(s, i + 1, TRUE)
         ELSE <<s[i]>> \o TitleFrom(s, i + 1, FALSE)

Title(s) == TitleFrom(s, 1, FALSE)

\* least position >= i holding c, 0 when there is none
RECURSIVE FirstAt(_, _, _)
FirstAt(s, i, c) ==
    IF i > Len(s) THEN 0
    ELSE IF s[i] = c THEN i
    ELSE FirstAt(s, i + 1, c)

DotMd == <<".", "m", "d">>

(***************************************************************************)
(* convert_filename_to_wiki_title                                          *)
(***************************************************************************)
\* the table with 'Http' given the value of 'Https': a value that is not the
\* key in another letter case
title_mapping_HttpAsHttps ==
    << <<<<"A", "p", "i">>, <<"A", "P", "I">>>>,
       <<<<"K", "p", "i">>, <<"K", "P", "I">>>>,
       <<<<"P", "r", "d">>, <<"P", "R", "D">>>>,
       <<<<"U", "i">>, <<"U", "I">>>>,
       <<<<"U", "x">>, <<"U", "X">>>>,
       <<<<"P", "w", "a">>, <<"P", "W", "A">>>>,
       <<<<"S", "q", "l">>, <<"S", "Q", "L">>>>,
       <<<<"H", "t", "m", "l">>, <<"H", "T", "M", "L">>>>,
       <<<<"C", "s", "s">>, <<"C", "S", "S">>>>,
       <<<<"J", "s", "o", "n">>, <<"J", "S", "O", "N">>>>,
       <<<<"H", "t", "t", "p">>, <<"H", "T", "T", "P", "S">>>>,
       <<<<"H", "t", "t", "p", "s">>, <<"H", "T", "T", "P", "S">>>>,
       <<<<"A", "w", "s">>, <<"A", "W", "S">>>>,
       <<<<"G", "c", "p">>, <<"G", "C", "P">>>> >>

title_mapping ==
    << <<<<"A", "p", "i">>, <<"A", "P", "I">>>>,
       <<<<"K", "p", "i">>, <<"K", "P", "I">>>>,
       <<<<"P", "r", "d">>, <<"P", "R", "D">>>>,
       <<<<"U", "i">>, <<"U", "I">>>>,
       <<<<"U", "x">>, <<"U", "X">>>>,
       <<<<"P", "w", "a">>, <<"P", "W", "A">>>>,
       <<<<"S", "q", "l">>, <<"S", "Q", "L">>>>,
       <<<<"H", "t", "m", "l">>, <<"H", "T", "M", "L">>>>,
       <<<<"C", "s", "s">>, <<"C", "S", "S">>>>,
       <<<<"J", "s", "o", "n">>, <<"J", "S", "O", "N">>>>,
       <<<<"H", "t", "t", "p">>, <<"H", "T", "T", "P">>>>,
       <<<<"H", "t", "t", "p", "s">>, <<"H", "T", "T", "P", "S">>>>,
       <<<<"A", "w", "s">>, <<"A", "W", "S">>>>,
       <<<<"G", "c", "p">>, <<"G", "C", "P">>>> >>

\* for old, new in title_mapping.items(): title = title.replace(old, new)
RECURSIVE ApplyMapping(_, _)
ApplyMapping(t, k) ==
    IF k > Len(title_mapping) THEN t
    ELSE ApplyMapping(Replace(t, title_mapping[k][1], title_mapping[k][2]), k + 1)

convert_filename_to_wiki_title(filename) ==
    LET name == Replace(filename, DotMd, <<>>)
        t    == Replace(Title(Replace(name, <<"-">>, <<" ">>)), <<" ">>, <<"-">>)
    IN  ApplyMapping(t, 1)

(***************************************************************************)
(* Inline links: re.findall(r'\[([^\]]+)\]\(([^)]+)\)', content)           *)
(***************************************************************************)
\* the end of the match starting at i, 0 when none starts there: "[", a
\* non-empty run without "]", "](", a non-empty run without ")", ")"
LinkEndAt(s, i) ==
    IF i > Len(s) \/ s[i] # "[" THEN 0
    ELSE LET r == FirstAt(s, i + 1, "]")
         IN  IF r = 0 \/ r = i + 1 \/ r + 1 > Len(s) \/ s[r + 1] # "(" THEN 0
             ELSE LET e == FirstAt(s, r + 2, ")")
                  IN  IF e = 0 \/ e = r + 2 THEN 0 ELSE e

RECURSIVE LinksFrom(_, _)
LinksFrom(s, i) ==
    IF i > Len(s) THEN <<>>
    ELSE LET e == LinkEndAt(s, i)
         IN  IF e = 0 THEN LinksFrom(s, i + 1)
             ELSE LET r == FirstAt(s, i + 1, "]")
                  IN  <<[text |-> SubSeq(s, i + 1, r - 1),
                         target |-> SubSeq(s, r + 2, e - 1)]>>
                      \o LinksFrom(s, e + 1)

Links(s) == LinksFrom(s, 1)

(***************************************************************************)
(* convert_link_patterns: six re.sub passes in source order                *)
(***************************************************************************)
\* r'\]\(' prefix r'([^)]+)\.md\)' at i: the position of the closing ")",
\* 0 when the pattern does not match at i
MatchFile(s, i, prefix) ==
    IF ~StartsWithAt(s, i, prefix) THEN 0
    ELSE LET j == i + Len(prefix)
             e == FirstAt(s, j, ")")
         IN  IF e # 0 /\ e - 4 >= j /\ StartsWithAt(s, e - 3, DotMd) THEN e ELSE 0

\* re.sub of that pattern by r'](\1)', or by the title of group 1
RECURSIVE SubFile(_, _, _, _)
SubFile(s, i, prefix, toTitle) ==
    IF i > Len(s) THEN <<>>
    ELSE LET e == MatchFile(s, i, prefix)
         IN  IF e = 0 THEN <<s[i]>> \o SubFile(s, i + 1, prefix, toTitle)
             ELSE LET g == SubSeq(s, i + Len(prefix), e - 4)
                  IN  <<"]", "(">>
                      \o (IF toTitle THEN convert_filename_to_wiki_title(g) ELSE g)
                      \o <<")">> \o SubFile(s, e + 1, prefix, toTitle)

\* r'\]\(' prefix r'([^/]+)/([^)]+)\.md\)' at i: <<position of the "/",
\* position of the closing ")">>, <<0, 0>> when the pattern does not match
MatchDirFile(s, i, prefix) ==
    IF ~StartsWithAt(s, i, prefix) THEN <<0, 0>>
    ELSE LET j == i + Len(prefix)
             f == FirstAt(s, j, "/")
         IN  IF f = 0 \/ f = j THEN <<0, 0>>
             ELSE LET e == FirstAt(s, f + 1, ")")
                  IN  IF e # 0 /\ e - 4 >= f + 1 /\ StartsWithAt(s, e - 3, DotMd)
                      THEN <<f, e>> ELSE <<0, 0>>

\* re.sub of that pattern by the title of group 2
RECURSIVE SubDirFile(_, _, _)
SubDirFile(s, i, prefix) ==
    IF i > Len(s) THEN <<>>
    ELSE LET m == MatchDirFile(s, i, prefix)
         IN  IF m[2] = 0 THEN <<s[i]>> \o SubDirFile(s, i + 1, prefix)
             ELSE <<"]", "(">>
                  \o convert_filename_to_wiki_title(SubSeq(s, m[1] + 1, m[2] - 4))
                  \o <<")">> \o SubDirFile(s, m[2] + 1, prefix)

Pattern1(s) == SubFile(s, 1, <<"]", "(", ".", "/">>, FALSE)

Pattern2(s) == SubFile(s, 1, <<"]", "(", ".", ".", "/">>, FALSE)

Pattern3(s) == SubDirFile(s, 1, <<"]", "(", ".", ".", "/">>)

Pattern4(s) == SubFile(s, 1, <<"]", "(", ".", ".", "/", ".", ".", "/">>, FALSE)

Pattern5(s) == SubDirFile(s, 1, <<"]", "(", ".", "/">>)

Pattern6(s) == SubFile(s, 1, <<"]", "(">>, TRUE)

convert_link_patterns(content) ==
    Pattern6(Pattern5(Pattern4(Pattern3(Pattern2(Pattern1(content))))))

(***************************************************************************)
(* add_wiki_metadata                                                       *)
(***************************************************************************)
RECURSIVE Join(_, _)
Join(parts, sep) ==
    IF Len(parts) = 0 THEN <<>>
    ELSE IF Len(parts) = 1 THEN parts[1]
    ELSE parts[1] \o sep \o Join(Tail(parts), sep)

\* str.split(sep) for a one-character separator
RECURSIVE SplitFrom(_, _, _, _)
SplitFrom(s, i, sep, cur) ==
    IF i > Len(s) THEN <<cur>>
    ELSE IF s[i] = sep THEN <<cur>> \o SplitFrom(s, i + 1, sep, <<>>)
    ELSE SplitFrom(s, i + 1, sep, Append(cur, s[i]))

Split(s, sep) == SplitFrom(s, 1, sep, <<>>)

Whitespace == {" ", "\t", "\n", "\r", "\f"}

\* str.strip()
RECURSIVE LStrip(_)
LStrip(s) ==
    IF s # <<>> /\ Head(s) \in Whitespace THEN LStrip(Tail(s)) ELSE s

RECURSIVE RStrip(_)
RStrip(s) ==
    IF s # <<>> /\ s[Len(s)] \in Whitespace THEN RStrip(SubSeq(s, 1, Len(s) - 1)) ELSE s

Strip(s) == RStrip(LStrip(s))

\* lines[0].startswith('# ')
HasTitleLine(lines) == Len(lines) > 0 /\ StartsWithAt(lines[1], 1, <<"#", " ">>)

\* original_title or title
DisplayTitle(lines, title) ==
    LET original_title ==
            IF HasTitleLine(lines) THEN Strip(SubSeq(lines[1], 3, Len(lines[1])))
            ELSE <<>>
    IN  IF original_title # <<>> THEN original_title ELSE title

CategoryMarker == "**Category**:"

Header(display_title, category) ==
    <<"#", " ">> \o display_title \o <<"\n", "\n", CategoryMarker, " ">> \o category
    \o <<"\n", "**Last Updated**: August 12, 2025", "\n", "**Status**: Current",
         "\n", "\n", "-", "-", "-", "\n", "\n">>

Footer ==
    <<"\n", "\n", "-", "-", "-", "\n", "\n", "## Related Documentation", "\n", "\n",
      "*See the ", "[", "Home", "]", "(", "Home", ")",
      " page for complete documentation navigation.*", "\n", "\n",
      "-", "-", "-", "\n", "\n",
      "*This page is part of the Nearest Nice Weather project documentation. Please keep it current as the project evolves.*">>

\* line.strip() is non-empty
NonBlank(line) == Strip(line) # <<>>

\* content_lines = [line for line in lines if line.strip()]; the while loop
\* after it pops nothing, every line kept being non-blank
ContentLines(lines) == SelectSeq(lines, NonBlank)

add_wiki_metadata(content, title, category) ==
    LET lines0 == Split(content, "\n")
        lines  == IF HasTitleLine(lines0) THEN Tail(lines0) ELSE lines0
    IN  Header(DisplayTitle(lines0, title), category)
        \o Join(ContentLines(lines), <<"\n">>) \o Footer

(***************************************************************************)
(* process_file                                                            *)
(*                                                                         *)
(* A source file is [dir, stem, content, fault].  fault is what the file   *)
(* system does when this file is processed: "none"; "read" (open or read   *)
(* of the input raises); "open" (open of the output raises, nothing is     *)
(* touched); "write" (open(output_path, 'w') has truncated the file and    *)
(* the write or the flush on close raises, leaving a strict prefix).       *)
(***************************************************************************)
Faults == {"none", "read", "open", "write"}

\* what a failed write can leave behind: nothing, or the first half
PartialCuts(final_content) == {0, Len(final_content) \div 2}

WriteFile(fs, path, data) ==
    [p \in DOMAIN fs \cup {path} |-> IF p = path THEN data ELSE fs[p]]

Failure(f) == [success |-> FALSE, original_file |-> <<f.dir, f.stem>>, error |-> f.fault]

\* process_file with the read failure swallowed (the file read as empty)
\* instead of reported
process_file_ReadErrorSwallowed(f, output_path, category, fs, cut) ==
    LET final_content ==
            add_wiki_metadata(IF f.fault = "read" THEN <<>>
                              ELSE convert_link_patterns(f.content),
                              convert_filename_to_wiki_title(f.stem), category)
    IN  IF f.fault = "open" THEN [result |-> Failure(f), fs |-> fs]
        ELSE IF f.fault = "write"
        THEN [result |-> Failure(f),
              fs |-> WriteFile(fs, output_path, SubSeq(final_content, 1, cut))]
        ELSE [result |-> [success |-> TRUE,
                          original_file |-> <<f.dir, f.stem>>,
                          wiki_file |-> output_path,
                          wiki_title |-> convert_filename_to_wiki_title(f.stem),
                          original_links |-> 0,
                          converted_links |-> Len(Links(final_content)),
                          content_length |-> Len(final_content)],
              fs |-> WriteFile(fs, output_path, final_content)]

\* returns the result dictionary and the output directory after the call
process_file(f, output_path, category, fs, cut) ==
    IF f.fault = "read" THEN [result |-> Failure(f), fs |-> fs]
    ELSE LET converted_content == convert_link_patterns(f.content)
             wiki_title        == convert_filename_to_wiki_title(f.stem)
             final_content     == add_wiki_metadata(converted_content, wiki_title, category)
         IN  IF f.fault = "open" THEN [result |-> Failure(f), fs |-> fs]
             ELSE IF f.fault = "write"
             THEN [result |-> Failure(f),
                   fs |-> WriteFile(fs, output_path, SubSeq(final_content, 1, cut))]
             ELSE [result |-> [success |-> TRUE,
                               original_file |-> <<f.dir, f.stem>>,
                               wiki_file |-> output_path,
                               wiki_title |-> wiki_title,
                               original_links |-> Len(Links(f.content)),
                               converted_links |-> Len(Links(final_content)),
                               content_length |-> Len(final_content)],
                   fs |-> WriteFile(fs, output_path, final_content)]

(***************************************************************************)
(* main: the batch driver                                                  *)
(***************************************************************************)
category_mapping ==
    << <<"business-plan", <<"Business Documentation">>>>,
       <<"technical", <<"Technical Documentation">>>>,
       <<"appendices", <<"Supporting Documentation">>>>,
       <<"runbooks", <<"Operations & Runbooks">>>>,
       <<"sessions", <<"Project Management">>>>,
       <<"summaries", <<"Project Management">>>>,
       <<"guides", <<"Development Guides">>>> >>

NumDirs == Len(category_mapping)

ConfiguredDirs == { category_mapping[k][1] : k \in 1..NumDirs }

RootCategory == <<"Project Documentation">>

\* f.name not in ['README.md', 'CLAUDE.md', 'CLAUDE.local.md']
RootDenylist ==
    { <<"R", "E", "A", "D", "M", "E">>,
      <<"C", "L", "A", "U", "D", "E">>,
      <<"C", "L", "A", "U", "D", "E", ".", "l", "o", "c", "a", "l">> }

\* process_directory without the existence check
DirExists_Unchecked(d) == TRUE

\* dir_path.exists()
DirExists(d) == d \notin missing

\* dir_path.glob("*.md") for a configured directory; for the root, the
\* root_files list
Glob(k) ==
    IF k <= NumDirs THEN { f \in tree : f.dir = category_mapping[k][1] }
    ELSE { f \in tree : f.dir = "root" /\ f.stem \notin RootDenylist }

WikiFilename(f) == convert_filename_to_wiki_title(f.stem) \o DotMd

\* the loop body of process_directory and of the root loop
HandleFile(f, category, cut) ==
    LET r == process_file(f, WikiFilename(f), category, outfs, cut)
    IN  /\ outfs' = r.fs
        /\ IF r.result.success
           THEN /\ processed_files' = Append(processed_files, r.result)
                /\ UNCHANGED failed_files
           ELSE /\ failed_files' = Append(failed_files, r.result)
                /\ UNCHANGED processed_files

CutsFor(f, category) ==
    IF f.fault = "write"
    THEN PartialCuts(add_wiki_metadata(convert_link_patterns(f.content),
                         convert_filename_to_wiki_title(f.stem), category))
    ELSE {0}

Advance ==
    /\ dirIdx' = dirIdx + 1
    /\ pending' = Glob(dirIdx + 1)

\* process_directory: if not dir_path.exists(): print warning; return
SkipMissingDirectory ==
    /\ pc = "walk" /\ dirIdx <= NumDirs
    /\ ~DirExists(category_mapping[dirIdx][1])
    /\ warnings' = Append(warnings, category_mapping[dirIdx][1])
    /\ Advance
    /\ UNCHANGED <<tree, missing, pc, outfs, processed_files, failed_files, index>>
    /\ UNCHANGED fnVars

\* process_directory: one iteration of for md_file in dir_path.glob("*.md")
ProcessDirectoryFile ==
    /\ pc = "walk" /\ dirIdx <= NumDirs
    /\ DirExists(category_mapping[dirIdx][1])
    /\ \E f \in pending :
         /\ \E cut \in CutsFor(f, category_mapping[dirIdx][2]) :
                HandleFile(f, category_mapping[dirIdx][2], cut)
         /\ pending' = pending \ {f}
    /\ UNCHANGED <<tree, missing, pc, dirIdx, warnings, index>>
    /\ UNCHANGED fnVars

\* process_directory returns: the glob is exhausted
LeaveDirectory ==
    /\ pc = "walk" /\ dirIdx <= NumDirs
    /\ DirExists(category_mapping[dirIdx][1])
    /\ pending = {}
    /\ Advance
    /\ UNCHANGED <<tree, missing, pc, outfs, processed_files, failed_files,
                   warnings, index>>
    /\ UNCHANGED fnVars

\* one iteration of for md_file in root_files
ProcessRootFile ==
    /\ pc = "walk" /\ dirIdx = NumDirs + 1
    /\ \E f \in pending :
         /\ \E cut \in CutsFor(f, RootCategory) : HandleFile(f, RootCategory, cut)
         /\ pending' = pending \ {f}
    /\ UNCHANGED <<tree, missing, pc, dirIdx, warnings, index>>
    /\ UNCHANGED fnVars

(***************************************************************************)
(* main: the category index                                                *)
(***************************************************************************)
Unknown == <<"Unknown">>

\* the first position >= i that holds no whitespace, Len(s) + 1 when none
RECURSIVE SkipSpace(_, _)
SkipSpace(s, i) ==
    IF i > Len(s) \/ s[i] \notin Whitespace THEN i ELSE SkipSpace(s, i + 1)

\* the greatest k in lo..hi with s[k] # "\n", 0 when none
RECURSIVE LastNonNewline(_, _, _)
LastNonNewline(s, lo, hi) ==
    IF hi < lo THEN 0
    ELSE IF s[hi] # "\n" THEN hi
    ELSE LastNonNewline(s, lo, hi - 1)

\* r'\*\*Category\*\*:\s*([^\n]+)' matched with the marker at p: group 1,
\* or <<"nomatch">>
NoMatch == <<"nomatch">>

CategoryGroupAt(s, p) ==
    LET w == SkipSpace(s, p + 1)
        k == IF w <= Len(s) THEN w ELSE LastNonNewline(s, p + 1, Len(s))
    IN  IF k = 0 THEN NoMatch
        ELSE LET n == FirstAt(s, k, "\n")
             IN  SubSeq(s, k, IF n = 0 THEN Len(s) ELSE n - 1)

\* re.search: the match at the leftmost marker where the pattern matches
RECURSIVE SearchCategory(_, _)
SearchCategory(s, i) ==
    LET p == FirstAt(s, i, CategoryMarker)
    IN  IF p = 0 THEN NoMatch
        ELSE IF CategoryGroupAt(s, p) # NoMatch THEN CategoryGroupAt(s, p)
        ELSE SearchCategory(s, p + 1)

\* category = "Unknown"; try: open, read, search, strip; except: pass
ReadCategory(fs, wiki_file) ==
    IF wiki_file \notin DOMAIN fs THEN Unknown
    ELSE LET g == SearchCategory(fs[wiki_file], 1)
         IN  IF g = NoMatch THEN Unknown ELSE Strip(g)

\* by_category[category] = [file_info]: the list replaced, not extended
AddToCategory_Replace(by_category, category, file_info) ==
    IF \E k \in 1..Len(by_category) : by_category[k].category = category
    THEN LET k == CHOOSE k \in 1..Len(by_category) : by_category[k].category = category
         IN  [by_category EXCEPT ![k].files = <<file_info>>]
    ELSE Append(by_category, [category |-> category, files |-> <<file_info>>])

\* by_category[category].append(file_info), creating the list on first use
AddToCategory(by_category, category, file_info) ==
    IF \E k \in 1..Len(by_category) : by_category[k].category = category
    THEN LET k == CHOOSE k \in 1..Len(by_category) : by_category[k].category = category
         IN  [by_category EXCEPT ![k].files = Append(@, file_info)]
    ELSE Append(by_category, [category |-> category, files |-> <<file_info>>])

RECURSIVE GroupByCategory(_, _, _, _)
GroupByCategory(files, i, fs, by_category) ==
    IF i > Len(files) THEN by_category
    ELSE GroupByCategory(files, i + 1, fs,
             AddToCategory(by_category, ReadCategory(fs, files[i].wiki_file), files[i]))

\* code points, for the comparison of titles
AsciiOrder ==
    <<" ", "#", "(", ")", "*", "-", ".", "/", "0", "1", "2", "3", "4",
      "5", "6", "7", "8", "9", ":", "A", "B", "C", "D", "E", "F", "G",
      "H", "I", "J", "K", "L", "M", "N", "O", "P", "Q", "R", "S", "T",
      "U", "V", "W", "X", "Y", "Z", "[", "]", "_", "a", "b", "c", "d",
      "e", "f", "g", "h", "i", "j", "k", "l", "m", "n", "o", "p", "q",
      "r", "s", "t", "u", "v", "w", "x", "y", "z">>

Ord(c) == CHOOSE i \in 1..Len(AsciiOrder) : AsciiOrder[i] = c

\* a < b as Python compares str
RECURSIVE StrLess(_, _)
StrLess(a, b) ==
    IF b = <<>> THEN FALSE
    ELSE IF a = <<>> THEN TRUE
    ELSE IF Head(a) # Head(b) THEN Ord(Head(a)) < Ord(Head(b))
    ELSE StrLess(Tail(a), Tail(b))

\* sorted(files, key=lambda x: x['wiki_title']): stable
RECURSIVE InsertByTitle(_, _)
InsertByTitle(sorted, x) ==
    IF sorted = <<>> THEN <<x>>
    ELSE IF StrLess(x.wiki_title, Head(sorted).wiki_title) THEN <<x>> \o sorted
    ELSE <<Head(sorted)>> \o InsertByTitle(Tail(sorted), x)

RECURSIVE SortFrom(_, _, _)
SortFrom(files, i, acc) ==
    IF i > Len(files) THEN acc
    ELSE SortFrom(files, i + 1, InsertByTitle(acc, files[i]))

SortByTitle(files) == SortFrom(files, 1, <<>>)

\* the index page: the Total Files line and, per category in dictionary
\* order, the "- [title](title)" lines
IndexContent(files, fs) ==
    LET by_category == GroupByCategory(files, 1, fs, <<>>)
    IN  [total  |-> Len(files),
         groups |-> [k \in 1..Len(by_category) |->
                        [category |-> by_category[k].category,
                         entries  |-> [j \in 1..Len(by_category[k].files) |->
                                          SortByTitle(by_category[k].files)[j].wiki_title]]]]

NoIndex == [total |-> 0, groups |-> <<>>]

\* lines 246-296: the index is built from the files read back and written;
\* the write of the index is outside any try and ends the run when it raises
BuildIndex ==
    /\ pc = "walk" /\ dirIdx = NumDirs + 1 /\ pending = {}
    /\ \E written \in BOOLEAN :
         IF written
         THEN /\ index' = IndexContent(processed_files, outfs)
              /\ pc' = "done"
         ELSE /\ index' = index
              /\ pc' = "crashed"
    /\ UNCHANGED <<tree, missing, dirIdx, pending, outfs, processed_files,
                   failed_files, warnings>>
    /\ UNCHANGED fnVars

(***************************************************************************)
(* The batch specification: an input tree of up to MaxFiles files among    *)
(* the candidates, each with its fault, and up to MaxMissing configured    *)
(* directories that do not exist.                                          *)
(***************************************************************************)
Candidates ==
    { [dir |-> "technical", stem |-> <<"a", "p", "i", "-", "o", "v", "e", "r", "v", "i", "e", "w">>,
       content |-> <<"#", " ", "T", "\n", "[", "s", "]", "(", "n", "o", "t", "e", "s", ".", "m", "d", ")">>],
      [dir |-> "guides", stem |-> <<"a", "p", "i", "-", "o", "v", "e", "r", "v", "i", "e", "w">>,
       content |-> <<"b", "\n", "\n", "b">>],
      [dir |-> "guides", stem |-> <<"s", "e", "t", "u", "p">>,
       content |-> <<"[", "a", "]", "(", ".", ".", "/", "L", "I", "C", "E", "N", "S", "E", ")", " ", "[", "b", "]", "(", "d", "o", "c", "s", "/", "a", "p", "i", ".", "m", "d", ")">>],
      [dir |-> "root", stem |-> <<"n", "o", "t", "e", "s">>,
       content |-> <<"#", " ", "N", "o", "t", "e", "s", "\n", "s", "e", "e", " ", "[", "h", "]", "(", "#", "t", "o", "p", ")">>],
      [dir |-> "root", stem |-> <<"R", "E", "A", "D", "M", "E">>,
       content |-> <<"r">>] }

Trees ==
    UNION { { { [dir |-> c.dir, stem |-> c.stem, content |-> c.content,
                 fault |-> flt[c]] : c \in cs } : flt \in [cs -> Faults] } :
            cs \in { x \in SUBSET Candidates : Cardinality(x) <= MaxFiles } }

Init ==
    /\ tree \in { tr \in Trees :
                    \A f \in tr : (f.dir = "root" /\ f.stem \in RootDenylist)
                                      => f.fault = "none" }
    /\ missing \in { m \in SUBSET ConfiguredDirs :
                       /\ Cardinality(m) <= MaxMissing
                       /\ \A f \in tree : f.dir \notin m }
    /\ pc = "walk"
    /\ dirIdx = 1
    /\ pending = { f \in tree : f.dir = category_mapping[1][1] }
    /\ outfs = <<>>
    /\ processed_files = <<>>
    /\ failed_files = <<>>
    /\ warnings = <<>>
    /\ index = NoIndex
    /\ fn_pc = "idle"
    /\ norm_in = <<"unset">> /\ norm_out = <<"unset">>
    /\ link_in = <<"unset">> /\ link_out = <<"unset">>
    /\ wrap_in = <<"unset">> /\ wrap_out = <<"unset">>

Next ==
    \/ SkipMissingDirectory
    \/ ProcessDirectoryFile
    \/ LeaveDirectory
    \/ ProcessRootFile
    \/ BuildIndex

Spec == Init /\ [][Next]_vars

(***************************************************************************)
(* Properties of the batch run                                             *)
(***************************************************************************)
Finished == pc \in {"done", "crashed"}

FileId(f) == <<f.dir, f.stem>>

\* the files main() hands to process_file
Processable ==
    { f \in tree : f.dir \in ConfiguredDirs
                   \/ (f.dir = "root" /\ f.stem \notin RootDenylist) }

RecordsOf(records, f) ==
    { i \in 1..Len(records) : records[i].original_file = FileId(f) }

RECURSIVE IndexEntries(_, _)
IndexEntries(groups, k) ==
    IF k > Len(groups) THEN 0
    ELSE Len(groups[k].entries) + IndexEntries(groups, k + 1)

\* C1: when the run ends, every file whose read or write failed has exactly
\* one failure record and no success record, every other file exactly one
\* success record and no failure record (no failure cut the walk short); and
\* the index of a finished run lists exactly as many entries as there are
\* success records.
\* (With one unreadable file and N readable ones: 1 failure, N successes, N
\* index entries.)
C1_OneFailureRecordPerBadFile ==
    /\ Finished =>
         /\ \A f \in Processable :
              /\ Cardinality(RecordsOf(failed_files, f)) = (IF f.fault = "none" THEN 0 ELSE 1)
              /\ Cardinality(RecordsOf(processed_files, f)) = (IF f.fault = "none" THEN 1 ELSE 0)
         /\ Len(failed_files) = Cardinality({ f \in Processable : f.fault # "none" })
         /\ Len(processed_files) = Cardinality({ f \in Processable : f.fault = "none" })
    /\ pc = "done" =>
         /\ index.total = Len(processed_files)
         /\ IndexEntries(index.groups, 1) = Len(processed_files)

\* a finished run with exactly one unreadable file and at least one readable
\* file, all of them recorded and the readable ones listed in the index
C1_Witness ==
    /\ pc = "done"
    /\ Cardinality({ f \in Processable : f.fault = "read" }) = 1
    /\ \A f \in Processable : f.fault \in {"none", "read"}
    /\ Len(failed_files) = 1
    /\ Len(processed_files) = Cardinality(Processable) - 1
    /\ Len(processed_files) >= 1
    /\ IndexEntries(index.groups, 1) = Len(processed_files)

\* C4: every success record reports as many links after conversion as
\* before it.
C4_LinkCountsEqual ==
    \A i \in 1..Len(processed_files) :
        processed_files[i].converted_links = processed_files[i].original_links

CategoryOfDir(d) ==
    IF d = "root" THEN RootCategory
    ELSE category_mapping[CHOOSE k \in 1..NumDirs : category_mapping[k][1] = d][2]

\* the page process_file builds for f
PageOf(f) ==
    add_wiki_metadata(convert_link_patterns(f.content),
                      convert_filename_to_wiki_title(f.stem), CategoryOfDir(f.dir))

\* C6: every file in the output directory is the completely transformed page
\* of a source file written to that path with success; no failure leaves an
\* empty or partial file behind.
C6_PageWrittenWhollyOrNotAtAll ==
    \A path \in DOMAIN outfs :
        \E f \in Processable :
            /\ WikiFilename(f) = path
            /\ outfs[path] = PageOf(f)
            /\ RecordsOf(processed_files, f) # {}

\* C7: each missing configured directory gets exactly one warning and no
\* record of either kind, and every file of the other directories and of the
\* root still gets its one record, with the title of its own stem.
C7_MissingDirectorySkipped ==
    Finished =>
        /\ Len(warnings) = Cardinality(missing)
        /\ { warnings[i] : i \in 1..Len(warnings) } = missing
        /\ \A i \in 1..Len(processed_files) :
              processed_files[i].original_file[1] \notin missing
        /\ \A i \in 1..Len(failed_files) :
              failed_files[i].original_file[1] \notin missing
        /\ \A f \in Processable :
              /\ Cardinality(RecordsOf(processed_files, f))
                   + Cardinality(RecordsOf(failed_files, f)) = 1
              /\ \A i \in RecordsOf(processed_files, f) :
                    processed_files[i].wiki_title = convert_filename_to_wiki_title(f.stem)

\* a finished run in which a configured directory was missing and a file of
\* a directory configured after it was processed
C7_Witness ==
    /\ pc = "done"
    /\ "technical" \in missing
    /\ warnings = <<"technical">>
    /\ \E i \in 1..Len(processed_files) : processed_files[i].original_file[1] = "guides"

\* the category read back for the i-th success record when the index is built
ReadBackCategory(i) == ReadCategory(outfs, processed_files[i].wiki_file)

\* the category in the header of the page written for the i-th success record
WrittenCategory(i) == CategoryOfDir(processed_files[i].original_file[1])

Least(S) == CHOOSE x \in S : \A y \in S : x <= y

\* the index groups every success record under Cat of it: one group per
\* category, in first-seen order, each holding the titles of its records,
\* sorted
GroupedBy(Cat(_)) ==
    LET n == Len(processed_files)
        members(c) == { i \in 1..n : Cat(i) = c }
        groups == index.groups
    IN  /\ { groups[g].category : g \in 1..Len(groups) } = { Cat(i) : i \in 1..n }
        /\ \A g, h \in 1..Len(groups) :
              g < h => /\ groups[g].category # groups[h].category
                       /\ Least(members(groups[g].category))
                             < Least(members(groups[h].category))
        /\ \A g \in 1..Len(groups) :
              LET ms == members(groups[g].category)
                  es == groups[g].entries
              IN  /\ Len(es) = Cardinality(ms)
                  /\ \A i \in ms :
                        Cardinality({ a \in 1..Len(es) : es[a] = processed_files[i].wiki_title })
                          = Cardinality({ j \in ms : processed_files[j].wiki_title
                                                       = processed_files[i].wiki_title })
                  /\ \A a, b \in 1..Len(es) : a < b => ~StrLess(es[b], es[a])

\* C10 (as claimed): every success record is in exactly one group, the one
\* named by the category in the header of the page written for that record;
\* groups in first-seen order, entries sorted by title.
C10_GroupedByWrittenCategory == pc = "done" => GroupedBy(WrittenCategory)

\* C10 (amended): every success record is in exactly one group, the one named
\* by the category read back from the file found at the record's output path
\* when the index is built (the text after the first category marker in it,
\* "Unknown" when it has none); groups in first-seen order, entries sorted by
\* title.
C10_GroupedByReadBackCategory == pc = "done" => GroupedBy(ReadBackCategory)

\* a finished run in which two files of different categories were written to
\* the same output path and both are listed under the category read back
C10_Witness ==
    /\ pc = "done"
    /\ \E i, j \in 1..Len(processed_files) :
          /\ i < j
          /\ processed_files[i].wiki_file = processed_files[j].wiki_file
          /\ WrittenCategory(i) # WrittenCategory(j)
          /\ ReadBackCategory(i) = WrittenCategory(j)
          /\ \E g \in 1..Len(index.groups) :
                /\ index.groups[g].category = WrittenCategory(j)
                /\ Len(index.groups[g].entries) >= 2

(***************************************************************************)
(* Specification of the title normaliser alone: a stem of up to MaxWords   *)
(* hyphen-separated words is drawn and normalised.                         *)
(***************************************************************************)
StemWords ==
    { <<"a", "p", "i">>, <<"h", "t", "t", "p">>, <<"h", "t", "t", "p", "s">>,
      <<"u", "i">>, <<"j", "s", "o", "n">>, <<"p", "l", "a", "n">>,
      <<"o", "v", "e", "r", "v", "i", "e", "w">>, <<"H", "T", "M", "L">>,
      <<"g", "u", "i", "d", "e">> }

Stems ==
    { Join(ws, <<"-">>) : ws \in UNION { [1..n -> StemWords] : n \in 1..MaxWords } }

Unset == <<"unset">>

BatchIdle ==
    /\ tree = {} /\ missing = {} /\ pc = "idle" /\ dirIdx = 0 /\ pending = {}
    /\ outfs = <<>> /\ processed_files = <<>> /\ failed_files = <<>>
    /\ warnings = <<>> /\ index = NoIndex

InitNorm ==
    /\ BatchIdle
    /\ fn_pc = "input"
    /\ norm_in \in Stems /\ norm_out = Unset
    /\ link_in = Unset /\ link_out = Unset
    /\ wrap_in = Unset /\ wrap_out = Unset

Normalize ==
    /\ fn_pc = "input"
    /\ norm_out' = convert_filename_to_wiki_title(norm_in)
    /\ fn_pc' = "output"
    /\ UNCHANGED <<batchVars, norm_in, link_in, link_out, wrap_in, wrap_out>>

NextNorm == Normalize

SpecNorm == InitNorm /\ [][NextNorm]_vars

(***************************************************************************)
(* Specification of the link rewriter alone: a body of up to MaxLinks      *)
(* inline links separated by a space is drawn and rewritten.               *)
(***************************************************************************)
MkLink(text, target) == <<"[">> \o text \o <<"]", "(">> \o target \o <<")">>

LinkTexts == { <<"s", "e", "e">>, <<"x">> }

LinkTargets ==
    { <<".", "/", "g", "u", "i", "d", "e", "s", "/", "s", "e", "t", "u", "p", ".", "m", "d">>,
      <<".", ".", "/", "g", "u", "i", "d", "e", "s", "/", "s", "e", "t", "u", "p", ".", "m", "d">>,
      <<".", ".", "/", ".", ".", "/", "o", "v", "e", "r", "v", "i", "e", "w", ".", "m", "d">>,
      <<".", ".", "/", "L", "I", "C", "E", "N", "S", "E">>,
      <<"n", "o", "t", "e", "s", ".", "m", "d">>,
      <<"#", "t", "o", "p">>,
      <<"d", "o", "c", "s", "/", "a", "p", "i", ".", "m", "d">>,
      <<".", "/", "s", "e", "t", "u", "p", ".", "m", "d">>,
      <<"h", "t", "t", "p", "s", ":", "/", "/", "x", ".", "i", "o">> }

LinkBodies ==
    UNION { { Join([i \in 1..n |-> MkLink(ls[i][1], ls[i][2])], <<" ">>) :
                ls \in [1..n -> LinkTexts \X LinkTargets] } : n \in 1..MaxLinks }

InitLinks ==
    /\ BatchIdle
    /\ fn_pc = "input"
    /\ link_in \in LinkBodies /\ link_out = Unset
    /\ norm_in = Unset /\ norm_out = Unset
    /\ wrap_in = Unset /\ wrap_out = Unset

RewriteLinks ==
    /\ fn_pc = "input"
    /\ link_out' = convert_link_patterns(link_in)
    /\ fn_pc' = "output"
    /\ UNCHANGED <<batchVars, norm_in, norm_out, link_in, wrap_in, wrap_out>>

NextLinks == RewriteLinks

SpecLinks == InitLinks /\ [][NextLinks]_vars

EndsWithMd(t) == Len(t) >= 3 /\ StartsWithAt(t, Len(t) - 2, DotMd)

\* the name of a target prefix dir "/" name ".md" with one named directory
\* (not "." or "..") and no further "/", Unset for any other target
DirFileName(t, prefix) ==
    IF ~StartsWithAt(t, 1, prefix) \/ ~EndsWithMd(t) THEN Unset
    ELSE LET rest == SubSeq(t, Len(prefix) + 1, Len(t) - 3)
             f    == FirstAt(rest, 1, "/")
         IN  IF f <= 1 \/ f = Len(rest) THEN Unset
             ELSE LET dir  == SubSeq(rest, 1, f - 1)
                      name == SubSeq(rest, f + 1, Len(rest))
                  IN  IF dir \in {<<".">>, <<".", ".">>} \/ FirstAt(name, 1, "/") # 0
                      THEN Unset ELSE name

\* the name of a target "../../" name ".md" with no "/" in name, else Unset
DoubleParentName(t) ==
    IF ~StartsWithAt(t, 1, <<".", ".", "/", ".", ".", "/">>) \/ ~EndsWithMd(t) THEN Unset
    ELSE LET name == SubSeq(t, 7, Len(t) - 3)
         IN  IF name = <<>> \/ FirstAt(name, 1, "/") # 0 THEN Unset ELSE name

\* the body is exactly one inline link
IsOneLink(s) ==
    /\ Len(Links(s)) = 1
    /\ s = MkLink(Links(s)[1].text, Links(s)[1].target)

\* C2: a body that is one link whose target is ./dir/name.md or
\* ../dir/name.md is rewritten to the same link with target normalize(name).
C2_DirFileLinkNormalized ==
    (fn_pc = "output" /\ IsOneLink(link_in)) =>
        LET l == Links(link_in)[1]
        IN  \A prefix \in {<<".", "/">>, <<".", ".", "/">>} :
                DirFileName(l.target, prefix) # Unset =>
                    link_out = MkLink(l.text,
                        convert_filename_to_wiki_title(DirFileName(l.target, prefix)))

\* C3: a body that is one link whose target is ../../name.md is rewritten to
\* the same link with the bare name as target.
C3_DoubleParentBareName ==
    (fn_pc = "output" /\ IsOneLink(link_in)) =>
        LET l == Links(link_in)[1]
        IN  DoubleParentName(l.target) # Unset =>
                link_out = MkLink(l.text, DoubleParentName(l.target))

\* C5: the output has the same links as the input, in order, each with the
\* text it had, and every link whose target does not end in ".md" unchanged.
C5_OnlyMdTargetsChange ==
    fn_pc = "output" =>
        LET before == Links(link_in)
            after  == Links(link_out)
        IN  /\ Len(after) = Len(before)
            /\ \A i \in 1..Len(before) :
                  /\ after[i].text = before[i].text
                  /\ ~EndsWithMd(before[i].target) => after[i] = before[i]

(***************************************************************************)
(* Specification of the metadata wrapper alone: a body of up to MaxLines   *)
(* lines is drawn and wrapped.                                             *)
(***************************************************************************)
BodyLines ==
    { <<"#", " ", "M", "y", " ", "T", "i", "t", "l", "e">>, <<>>, <<"p", "a", "r", "a">>, <<" ">>, <<"b">> }

WrapBodies ==
    UNION { { Join(ls, <<"\n">>) : ls \in [1..n -> BodyLines] } : n \in 1..MaxLines }

DerivedTitle == <<"S", "e", "t", "u", "p">>

Guides == <<"Development Guides">>

InitWrap ==
    /\ BatchIdle
    /\ fn_pc = "input"
    /\ wrap_in \in [content : WrapBodies, title : {DerivedTitle}, category : {Guides}]
    /\ wrap_out = Unset
    /\ norm_in = Unset /\ norm_out = Unset
    /\ link_in = Unset /\ link_out = Unset

Wrap ==
    /\ fn_pc = "input"
    /\ wrap_out' = add_wiki_metadata(wrap_in.content, wrap_in.title, wrap_in.category)
    /\ fn_pc' = "output"
    /\ UNCHANGED <<batchVars, norm_in, norm_out, link_in, link_out, wrap_in>>

NextWrap == Wrap

SpecWrap == InitWrap /\ [][NextWrap]_vars

RECURSIVE DropLeadingBlank(_)
DropLeadingBlank(lines) ==
    IF lines # <<>> /\ ~NonBlank(Head(lines)) THEN DropLeadingBlank(Tail(lines))
    ELSE lines

RECURSIVE DropTrailingBlank(_)
DropTrailingBlank(lines) ==
    IF lines # <<>> /\ ~NonBlank(lines[Len(lines)])
    THEN DropTrailingBlank(SubSeq(lines, 1, Len(lines) - 1))
    ELSE lines

\* C9: the wrapped page is the header, then every line of the body after its
\* first-line heading (if any) and its leading blank lines, unchanged and in
\* order, blank lines between paragraphs included, then the footer.  (Blank
\* lines at the very end of the body are not compared.)
C9_OnlyLeadingBlankLinesRemoved ==
    fn_pc = "output" =>
        LET lines0 == Split(wrap_in.content, "\n")
            rest   == IF HasTitleLine(lines0) THEN Tail(lines0) ELSE lines0
            hdr    == Header(DisplayTitle(lines0, wrap_in.title), wrap_in.category)
            inner  == SubSeq(wrap_out, Len(hdr) + 1, Len(wrap_out) - Len(Footer))
        IN  /\ wrap_out = hdr \o inner \o Footer
            /\ DropTrailingBlank(Split(inner, "\n"))
                   = DropTrailingBlank(DropLeadingBlank(rest))

\* C8: every hyphen-separated word of the stem that title-casing renders as a
\* key of title_mapping comes out of normalize as that key's value; in
\* particular "Https" comes out as "HTTPS".
MappedValue(w) ==
    LET k == CHOOSE k \in 1..Len(title_mapping) : title_mapping[k][1] = w
    IN  title_mapping[k][2]

IsMappingKey(w) == \E k \in 1..Len(title_mapping) : title_mapping[k][1] = w

C8_AcronymsRestored ==
    fn_pc = "output" =>
        LET inWords  == Split(norm_in, "-")
            outWords == Split(norm_out, "-")
        IN  /\ Len(outWords) = Len(inWords)
            /\ \A i \in 1..Len(inWords) :
                  IsMappingKey(Title(inWords[i])) =>
                      outWords[i] = MappedValue(Title(inWords[i]))

\* the part of C8 the code does satisfy: "api-overview" -> "API-Overview"
C8_ApiOverview ==
    (fn_pc = "output" /\ norm_in = <<"a", "p", "i", "-", "o", "v", "e", "r", "v", "i", "e", "w">>)
        => norm_out = <<"A", "P", "I", "-", "O", "v", "e", "r", "v", "i", "e", "w">>

(***************************************************************************)
(* Specification of the normaliser applied twice: a stem is normalised,    *)
(* the hyphens of the title are replaced by spaces, and the result is      *)
(* normalised again.  The stems mix letter cases, a digit, a space, a      *)
(* ".md" suffix and words that start with a key of title_mapping.          *)
(***************************************************************************)
RoundTripWords ==
    { <<"p", "l", "a", "n">>, <<"G", "u", "i", "d", "e">>,
      <<"h", "t", "t", "p", "d">>, <<"a", "p", "i">>,
      <<"v", "2", "b", "e", "t", "a">>, <<"m", "y", " ", "p", "l", "a", "n">>,
      <<"n", "o", "t", "e", "s", ".", "m", "d">> }

RoundTripStems ==
    { Join(ws, <<"-">>) :
          ws \in UNION { [1..n -> RoundTripWords] : n \in 1..MaxWords } }

InitRoundTrip ==
    /\ BatchIdle
    /\ fn_pc = "input"
    /\ norm_in \in RoundTripStems /\ norm_out = Unset
    /\ link_in = Unset /\ link_out = Unset
    /\ wrap_in = Unset /\ wrap_out = Unset

\* normalize(normalize(s).replace('-', ' ')): the title, its hyphens replaced
\* by spaces, is the next input
RoundTrip ==
    /\ fn_pc = "output"
    /\ norm_in' = Replace(norm_out, <<"-">>, <<" ">>)
    /\ norm_out' = convert_filename_to_wiki_title(norm_in')
    /\ fn_pc' = "again"
    /\ UNCHANGED <<batchVars, link_in, link_out, wrap_in, wrap_out>>

NextRoundTrip == Normalize \/ RoundTrip

SpecRoundTrip == InitRoundTrip /\ [][NextRoundTrip]_vars

\* no hyphen-separated word of the stem is, once title-cased, a key of
\* title_mapping
NoAcronymToken(stem) ==
    \A i \in 1..Len(Split(stem, "-")) : ~IsMappingKey(Title(Split(stem, "-")[i]))

\* C11: for every stem that contains no acronym-table token, normalising the
\* title of the stem with its hyphens replaced by spaces returns that title
\* again: the second normalisation leaves the output unchanged.
C11_RoundTripIdempotent ==
    [][(fn_pc = "output" /\ fn_pc' = "again" /\ NoAcronymToken(norm_in))
           => norm_out' = norm_out]_vars

\* the second normalisation of "plan-Guide" has run on "Plan Guide"
C11_Witness ==
    /\ fn_pc = "again"
    /\ norm_in = <<"P", "l", "a", "n", " ", "G", "u", "i", "d", "e">>
    /\ norm_out = <<"P", "l", "a", "n", "-", "G", "u", "i", "d", "e">>

\* the same holds of the stems that do contain acronym tokens
C11_RoundTripEveryStem ==
    [][(fn_pc = "output" /\ fn_pc' = "again") => norm_out' = norm_out]_vars

=============================================================================
